---------------------------- MODULE Spec2Model ----------------------------
(***************************************************************************)
(* A model of wit (src/wit.py): a working directory, the staging area, the *)
(* images (commit snapshots and their metadata), references.txt and        *)
(* activated.txt, and the commands init, add, commit, checkout, branch and *)
(* merge acting on them.                                                   *)
(*                                                                         *)
(* Python strings that end up in references.txt are sequences of atoms     *)
(* (a commit id, a name, "=" or "\n"), so that appending a line to a file  *)
(* that does not end in "\n" glues two lines together as it does on disk.  *)
(* A directory tree is a function from the paths of a small universe to    *)
(* "absent", "dir" or a file's content.  dircmp compares file contents     *)
(* (the shallow os.stat shortcut of filecmp is not modelled).  A path is    *)
(* a file or a folder once and for all, names hold no "=", no line break   *)
(* and no fnmatch wildcard, commit messages hold no "=", and gen_hash      *)
(* never repeats an id.  The user writes files and never deletes one.      *)
(***************************************************************************)
EXTENDS Naturals, Sequences, FiniteSets, TLC

VARIABLES work, staging, images, meta, references, activated, edits, op

vars == <<work, staging, images, meta, references, activated, edits, op>>

---------------------------------------------------------------------------
(* Bounds of the model.                                                    *)

\* Commit ids gen_hash may hand out: c1 .. c<MaxCommits>.
MaxCommits == 3

\* Number of times the user writes a file of the working directory.
MaxEdits == 3

---------------------------------------------------------------------------
(* The universe of paths, names and contents.                              *)

Absent == "absent"
DirV == "dir"
Contents == {"hello", "world"}

DirPaths == {<<"d">>}
FilePaths == {<<"f">>, <<"d", "f">>}
AllPaths == DirPaths \cup FilePaths

BranchNames == {"master", "feature", "dev"}

\* The longer histories of HistorySpec hold one commit more.
HistoryCommits == MaxCommits + 1

IdSeq == [i \in 1..(HistoryCommits + 2) |-> "c" \o ToString(i)]
CommitIds == {IdSeq[i] : i \in 1..MaxCommits}

\* len(commit_id) == 40: the shape of a raw commit id (checkout).
HasCommitIdShape(x) == x \in {IdSeq[i] : i \in DOMAIN IdSeq}

Base(p) == p[Len(p)]
Parent(p) == SubSeq(p, 1, Len(p) - 1)
Prefixes(p) == {SubSeq(p, 1, k) : k \in 1..Len(p)}
Children(dir) == {p \in AllPaths : Parent(p) = dir}

EmptyTree == [p \in AllPaths |-> Absent]
Present(t, p) == t[p] # Absent

\* A tree names no file below a directory it does not hold.
WellFormedTree(t) ==
    /\ \A p \in DirPaths : t[p] \in {Absent, DirV}
    /\ \A p \in FilePaths : t[p] \in {Absent} \cup Contents
    /\ \A p \in AllPaths : Present(t, p) =>
           \A q \in Prefixes(p) : q # p => t[q] = DirV

---------------------------------------------------------------------------
(* filecmp.dircmp and get_changes.                                         *)

left_only(L, R, dir) ==
    {Base(p) : p \in {q \in Children(dir) : Present(L, q) /\ ~Present(R, q)}}

right_only(L, R, dir) == left_only(R, L, dir)

diff_files(L, R, dir) ==
    {Base(p) : p \in {q \in Children(dir) :
                        /\ L[q] \in Contents
                        /\ R[q] \in Contents
                        /\ L[q] # R[q]}}

subdirs(L, R, dir) == {q \in Children(dir) : L[q] = DirV /\ R[q] = DirV}

\* The names get_changes yields (as a set: the callers test the list for
\* emptiness and use it as a collection of fnmatch patterns).
RECURSIVE get_changes_in(_, _, _, _, _, _)
get_changes_in(L, R, dir, lo, ro, df) ==
    (IF df THEN diff_files(L, R, dir) ELSE {})
        \cup (IF lo THEN left_only(L, R, dir) ELSE {})
        \cup (IF ro THEN right_only(L, R, dir) ELSE {})
        \cup UNION {get_changes_in(L, R, q, lo, ro, df) : q \in subdirs(L, R, dir)}

get_changes(L, R, lo, ro, df) == get_changes_in(L, R, <<>>, lo, ro, df)

---------------------------------------------------------------------------
(* shutil.copytree(src, dst, ignore=..., dirs_exist_ok=True).              *)

\* The names an ignore callback drops in one directory of src.
ignore_patterns(pats, src, p) == Base(p) \in pats

include_patterns(pats, src, p) == Base(p) \notin pats /\ src[p] # DirV

Ignored(mode, pats, src, p) ==
    CASE mode = "ignore_patterns" -> ignore_patterns(pats, src, p)
      [] mode = "include_patterns" -> include_patterns(pats, src, p)
      [] OTHER -> FALSE

\* copytree reaches p when no name on the way down to p is ignored.
Copied(mode, pats, src, p) ==
    /\ Present(src, p)
    /\ \A q \in Prefixes(p) : ~Ignored(mode, pats, src, q)

copytree(src, dst, mode, pats) ==
    [p \in AllPaths |-> IF Copied(mode, pats, src, p) THEN src[p] ELSE dst[p]]

---------------------------------------------------------------------------
(* Text files: str.splitlines, str.split('='), txt_to_dict.                *)

\* A one-name Python string; '' is the empty sequence of atoms.
Str(x) == IF x = "" THEN <<>> ELSE <<x>>

RECURSIVE split(_, _)
split(text, sep) ==
    IF \A i \in DOMAIN text : text[i] # sep
    THEN <<text>>
    ELSE LET i == CHOOSE j \in DOMAIN text :
                      text[j] = sep /\ \A k \in 1..(j - 1) : text[k] # sep
         IN <<SubSeq(text, 1, i - 1)>> \o split(SubSeq(text, i + 1, Len(text)), sep)

splitlines(text) ==
    LET parts == split(text, "\n")
    IN IF parts[Len(parts)] = <<>> THEN SubSeq(parts, 1, Len(parts) - 1) ELSE parts

\* A dict is the sequence of its <<key, value>> items, in insertion order.
dict_has(d, k) == \E i \in DOMAIN d : d[i][1] = k
dict_get(d, k) == d[CHOOSE i \in DOMAIN d : d[i][1] = k][2]
dict_set(d, k, v) ==
    IF dict_has(d, k)
    THEN [i \in DOMAIN d |-> IF d[i][1] = k THEN <<k, v>> ELSE d[i]]
    ELSE Append(d, <<k, v>>)

RECURSIVE dict_of(_)
dict_of(items) ==
    IF items = <<>> THEN <<>>
    ELSE LET n == Len(items)
         IN dict_set(dict_of(SubSeq(items, 1, n - 1)), items[n][1], items[n][2])

\* txt_to_dict: ok is FALSE where "{k: v for k, v in data_lists}" raises
\* ValueError (a line that does not split into exactly two fields).
txt_to_dict(text) ==
    LET lines == splitlines(text)
        fields == [i \in DOMAIN lines |-> split(lines[i], "=")]
    IN IF \A i \in DOMAIN fields : Len(fields[i]) = 2
       THEN [ok |-> TRUE, d |-> dict_of(fields)]
       ELSE [ok |-> FALSE, d |-> <<>>]

read_references(st) == txt_to_dict(st.references)

\* The text edit_references and gen_references write: one "k=v\n" per item.
RECURSIVE ref_lines(_)
ref_lines(d) ==
    IF d = <<>> THEN <<>>
    ELSE d[1][1] \o <<"=">> \o d[1][2] \o <<"\n">> \o ref_lines(Tail(d))

\* The file is opened 'r+' and written from offset 0; the new text is
\* never shorter than the old one (same keys, ids of one length, every
\* line now ended by "\n"), so nothing of the old text is left behind.
edit_references(st, ref_name, ref_id) ==
    LET ref == read_references(st).d
    IN [st EXCEPT !.references = ref_lines(dict_set(ref, ref_name, ref_id))]

\* A reference value used as a commit id.
IdOf(v) == IF Len(v) = 1 THEN v[1] ELSE "None"

---------------------------------------------------------------------------
(* The repository as one value, and what a command returns: the state it   *)
(* leaves behind and "ok" or the exception that ended it.                  *)

State ==
    [work |-> work, staging |-> staging, images |-> images, meta |-> meta,
     references |-> references, activated |-> activated]

Res(st, r) == [st |-> st, result |-> r]

\* gen_hash: an id no commit has yet.
gen_hash(st) == IdSeq[Cardinality(DOMAIN st.images) + 1]

\* os.listdir(images) holds commit_id.
find_commit_by_id(st, commit_id) ==
    Len(commit_id) = 1 /\ commit_id[1] \in DOMAIN st.images

\* The directory Path(images, commit_id): the images folder itself for ''
\* (no path of the universe is the name of a commit).
image_dir(st, commit_id) ==
    IF find_commit_by_id(st, commit_id) THEN st.images[commit_id[1]] ELSE EmptyTree

\* get_changes_to_be_committed with diff=False: modified files are missed.
get_changes_to_be_committed_no_diff(st, last_commit_id) ==
    get_changes(st.staging, image_dir(st, last_commit_id), TRUE, FALSE, FALSE)

get_changes_to_be_committed(st, last_commit_id) ==
    get_changes(st.staging, image_dir(st, last_commit_id), TRUE, FALSE, TRUE)

get_changes_not_staged(st) == get_changes(st.work, st.staging, FALSE, FALSE, TRUE)

\* get_untracked without left_only=True: nothing is yielded.
get_untracked_no_left_only(st) == get_changes(st.work, st.staging, FALSE, FALSE, FALSE)

get_untracked(st) == get_changes(st.work, st.staging, TRUE, FALSE, FALSE)

\* get_head_commit, given the dict read_references returned.
get_head_commit(ref) == IF ref # <<>> THEN dict_get(ref, Str("HEAD")) ELSE <<>>

---------------------------------------------------------------------------
(* init on an initialized repository: the folders exist, activated.txt is  *)
(* written again.                                                          *)

init_cmd(st) == Res([st EXCEPT !.activated = "master"], "ok")

---------------------------------------------------------------------------
(* add                                                                     *)

\* copytree(path_to_add, dst): makedirs(dst) and the whole tree below it.
add_tree(st, path) ==
    [p \in AllPaths |->
        IF p \in Prefixes(path) THEN DirV
        ELSE IF path \in Prefixes(p) /\ Present(st.work, p) THEN st.work[p]
        ELSE st.staging[p]]

\* makedirs(dst.parent) and copy(path_to_add, dst).
add_file(st, path) ==
    [p \in AllPaths |->
        IF p = path THEN st.work[p]
        ELSE IF p \in Prefixes(path) THEN DirV
        ELSE st.staging[p]]

add_cmd(st, path) ==
    IF ~Present(st.work, path) THEN Res(st, "FileNotFoundError")
    ELSE IF st.work[path] = DirV
    THEN IF Present(st.staging, path)
         THEN Res(st, "ok")      \* FileExistsError: "is already staged"
         ELSE Res([st EXCEPT !.staging = add_tree(st, path)], "ok")
    ELSE Res([st EXCEPT !.staging = add_file(st, path)], "ok")

---------------------------------------------------------------------------
(* commit                                                                  *)

\* gen_commit_txt: the parent line, <<>> for "parent=None".
gen_commit_txt(st, commit_id, second_parent_for_merge) ==
    LET ref == read_references(st).d
        parent == IF ref # <<>> THEN <<IdOf(dict_get(ref, Str("HEAD")))>> ELSE <<>>
    IN [st EXCEPT !.meta = (commit_id :> (parent \o second_parent_for_merge)) @@ @]

\* gen_references without the test "curr_head_id == active_id".
gen_references_moves_branch(st, commit_id) ==
    LET ref == read_references(st).d
        active_branch == Str(st.activated)
        head_id == Str(commit_id)
    IN IF ref # <<>>
       THEN IF ~dict_has(ref, active_branch)
            THEN Res(st, "KeyError")
            ELSE Res(edit_references(edit_references(st, Str("HEAD"), head_id),
                                     active_branch, head_id), "ok")
       ELSE Res([st EXCEPT !.references =
                    <<"HEAD", "=">> \o head_id \o <<"\n">>
                        \o active_branch \o <<"=">> \o head_id \o <<"\n">>], "ok")

\* gen_references without edit_references('HEAD', head_id).
gen_references_keeps_head(st, commit_id) ==
    LET ref == read_references(st).d
        active_branch == Str(st.activated)
        head_id == Str(commit_id)
    IN IF ref # <<>>
       THEN IF ~dict_has(ref, active_branch)
            THEN Res(st, "KeyError")
            ELSE LET curr_head_id == dict_get(ref, Str("HEAD"))
                     old_id == dict_get(ref, active_branch)
                     active_id == IF curr_head_id = old_id THEN head_id ELSE old_id
                 IN Res(edit_references(st, active_branch, active_id), "ok")
       ELSE Res([st EXCEPT !.references =
                    <<"HEAD", "=">> \o head_id \o <<"\n">>
                        \o active_branch \o <<"=">> \o head_id \o <<"\n">>], "ok")

gen_references(st, commit_id) ==
    LET ref == read_references(st).d
        active_branch == Str(st.activated)
        head_id == Str(commit_id)
    IN IF ref # <<>>
       THEN IF ~dict_has(ref, active_branch)
            THEN Res(st, "KeyError")
            ELSE LET curr_head_id == dict_get(ref, Str("HEAD"))
                     old_id == dict_get(ref, active_branch)
                     active_id == IF curr_head_id = old_id THEN head_id ELSE old_id
                 IN Res(edit_references(edit_references(st, Str("HEAD"), head_id),
                                        active_branch, active_id), "ok")
       ELSE Res([st EXCEPT !.references =
                    <<"HEAD", "=">> \o head_id \o <<"\n">>
                        \o active_branch \o <<"=">> \o head_id \o <<"\n">>], "ok")

\* commit copying the staging area over HEAD's snapshot as well.
commit_cmd_over_head(st, second_parent_for_merge) ==
    LET commit_id == gen_hash(st)
        ref == read_references(st)
        head == get_head_commit(ref.d)
    IN IF ~ref.ok THEN Res(st, "ValueError")
       ELSE IF get_changes_to_be_committed(st, head) = {}
       THEN Res(st, "NoChangesSinceLastCommitError")
       ELSE LET copied ==
                    [st EXCEPT !.images =
                        (commit_id :> st.staging)
                            @@ [c \in DOMAIN @ |->
                                   IF <<c>> = head THEN st.staging ELSE @[c]]]
            IN gen_references(gen_commit_txt(copied, commit_id, second_parent_for_merge),
                              commit_id)

\* second_parent_for_merge: <<>> for None, <<b>> for a merge.
commit_cmd(st, second_parent_for_merge) ==
    LET commit_id == gen_hash(st)
        ref == read_references(st)
    IN IF ~ref.ok THEN Res(st, "ValueError")
       ELSE IF get_changes_to_be_committed(st, get_head_commit(ref.d)) = {}
       THEN Res(st, "NoChangesSinceLastCommitError")
       ELSE LET copied == [st EXCEPT !.images = (commit_id :> st.staging) @@ @]
            IN gen_references(gen_commit_txt(copied, commit_id, second_parent_for_merge),
                              commit_id)

---------------------------------------------------------------------------
(* The history: get_parent_commit, get_all_parent_commits,                 *)
(* get_common_parent.  A commit id is an atom here, "None" is None.        *)

find_commit_by_branch_name(ref, branch_name) ==
    IF ref # <<>> /\ dict_has(ref, branch_name)
    THEN dict_get(ref, branch_name)
    ELSE <<"None">>

\* The parent line of <commit_id>.txt: <<>> for '' and for 'None', one id,
\* or the two ids of a merge (the list parent.split(',') returns).
get_parent_commit(st, commit_id) ==
    IF commit_id \in DOMAIN st.meta THEN st.meta[commit_id] ELSE <<>>

\* The ids yielded after commit_id itself.  Asked for the parent of a list
\* of two ids, get_parent_commit finds no such .txt file and returns '':
\* the walk ends with a merge commit's parents.
RECURSIVE parents_from(_, _, _)
parents_from(st, parent, flat) ==
    IF parent = <<>> THEN <<>>
    ELSE IF Len(parent) = 2
    THEN IF flat THEN parent ELSE <<parent>>
    ELSE <<parent[1]>> \o parents_from(st, get_parent_commit(st, parent[1]), flat)

get_all_parent_commits(st, commit_id, flat) ==
    <<commit_id>> \o parents_from(st, get_parent_commit(st, commit_id), flat)

\* for a, b in product(parents_a, parents_b): if a == b: return a
get_common_parent(st, commit_a, commit_b) ==
    LET parents_a == get_all_parent_commits(st, commit_a, TRUE)
        parents_b == get_all_parent_commits(st, commit_b, TRUE)
        InB(i) == \E j \in DOMAIN parents_b : parents_b[j] = parents_a[i]
    IN IF \E i \in DOMAIN parents_a : InB(i)
       THEN parents_a[CHOOSE i \in DOMAIN parents_a :
                          InB(i) /\ \A k \in 1..(i - 1) : ~InB(k)]
       ELSE "None"

---------------------------------------------------------------------------
(* checkout, branch, merge                                                 *)

checkout_cmd(st, target) ==
    LET ref == read_references(st)
        by_name == ~HasCommitIdShape(target)
        branch_name == IF by_name THEN target ELSE ""
        commit_id == IF by_name
                     THEN find_commit_by_branch_name(ref.d, Str(target))
                     ELSE Str(target)
        image == image_dir(st, commit_id)
        untracked == get_untracked(st)
    IN IF by_name /\ ~ref.ok THEN Res(st, "ValueError")
       ELSE IF ~find_commit_by_id(st, commit_id)
       THEN Res(st, "NonExistentCommitIdError")
       ELSE IF ~ref.ok THEN Res(st, "ValueError")
       ELSE IF \/ get_changes_to_be_committed(st, get_head_commit(ref.d)) # {}
               \/ get_changes_not_staged(st) # {}
       THEN Res(st, "UnableToCheckoutError")
       ELSE LET restored ==
                    [st EXCEPT !.work = copytree(image, st.work,
                                                 "ignore_patterns", untracked),
                               !.staging = copytree(image, EmptyTree, "none", {}),
                               !.activated = branch_name]
            IN Res(edit_references(restored, Str("HEAD"), commit_id), "ok")

\* branch without the test "branch_name not in ref".
branch_cmd_unchecked(st, branch_name) ==
    LET ref == read_references(st)
    IN IF ~ref.ok THEN Res(st, "ValueError")
       ELSE IF ref.d = <<>> THEN Res(st, "KeyError")
       ELSE Res([st EXCEPT !.references =
                    @ \o Str(branch_name) \o <<"=">> \o dict_get(ref.d, Str("HEAD"))],
                "ok")

branch_cmd(st, branch_name) ==
    LET ref == read_references(st)
    IN IF ~ref.ok THEN Res(st, "ValueError")
       ELSE IF dict_has(ref.d, Str(branch_name)) THEN Res(st, "BranchExistsError")
       ELSE IF ref.d = <<>> THEN Res(st, "KeyError")
       ELSE Res([st EXCEPT !.references =
                    @ \o Str(branch_name) \o <<"=">> \o dict_get(ref.d, Str("HEAD"))],
                "ok")

merge_cmd(st, branch_to_merge) ==
    LET ref == read_references(st)
        commit_a == find_commit_by_branch_name(ref.d, Str(st.activated))
        commit_b == find_commit_by_branch_name(ref.d, Str(branch_to_merge))
        common_parent == get_common_parent(st, IdOf(commit_a), IdOf(commit_b))
        changes_branch_to_merge_with_parent ==
            get_changes(image_dir(st, Str(common_parent)), image_dir(st, commit_b),
                        FALSE, TRUE, TRUE)
        changes_active_branch_with_staging ==
            get_changes(st.staging, image_dir(st, commit_a), TRUE, TRUE, TRUE)
        merged == [st EXCEPT !.staging =
                      copytree(image_dir(st, commit_b), st.staging,
                               "include_patterns",
                               changes_branch_to_merge_with_parent)]
    IN IF ~ref.ok THEN Res(st, "ValueError")
       ELSE IF commit_a = commit_b THEN Res(st, "InvalidMergeError")
       ELSE IF common_parent = "None" \/ commit_b = <<"None">>
       THEN Res(st, "TypeError")
       ELSE IF changes_active_branch_with_staging # {}
       THEN Res(st, "InvalidMergeError")
       ELSE commit_cmd(merged, Str(IdOf(commit_b)))

---------------------------------------------------------------------------
(* The user edits the working directory: a file is written, the folders    *)
(* above it are made.                                                      *)

write_file(st, path, content) ==
    [st EXCEPT !.work = [p \in AllPaths |->
                            IF p = path THEN content
                            ELSE IF p \in Prefixes(path) THEN DirV
                            ELSE st.work[p]]]

---------------------------------------------------------------------------
(* The state machine.  op is the last command that changed the repository  *)
(* or the working directory: its name, its argument and how it ended.  A   *)
(* command that changes nothing (most failures) is a stuttering step.      *)

Op(name, ref, result) == [name |-> name, ref |-> ref, result |-> result]

Apply(r, name, ref) ==
    /\ work' = r.st.work
    /\ staging' = r.st.staging
    /\ images' = r.st.images
    /\ meta' = r.st.meta
    /\ references' = r.st.references
    /\ activated' = r.st.activated
    /\ op' = IF r.st = State THEN op ELSE Op(name, ref, r.result)

\* After the first "wit init" in an empty directory.
Init ==
    /\ work = EmptyTree
    /\ staging = EmptyTree
    /\ images = <<>>
    /\ meta = <<>>
    /\ references = <<>>
    /\ activated = "master"
    /\ edits = 0
    /\ op = Op("init", "", "ok")

CommitTargets == {IdSeq[i] : i \in 1..(MaxCommits + 1)}

init ==
    /\ Apply(init_cmd(State), "init", "")
    /\ UNCHANGED edits

add ==
    \E path \in AllPaths :
        /\ Apply(add_cmd(State, path), "add", "")
        /\ UNCHANGED edits

commit ==
    /\ Cardinality(DOMAIN images) < MaxCommits
    /\ Apply(commit_cmd(State, <<>>), "commit", "")
    /\ UNCHANGED edits

checkout ==
    \E target \in BranchNames \cup CommitTargets :
        /\ Apply(checkout_cmd(State, target), "checkout", target)
        /\ UNCHANGED edits

branch ==
    \E branch_name \in BranchNames :
        /\ Apply(branch_cmd(State, branch_name), "branch", branch_name)
        /\ UNCHANGED edits

merge ==
    \E branch_to_merge \in BranchNames :
        /\ Cardinality(DOMAIN images) < MaxCommits
        /\ Apply(merge_cmd(State, branch_to_merge), "merge", branch_to_merge)
        /\ UNCHANGED edits

\* dircmp compares the contents of one path in two trees and never those
\* of two paths, so the name of the content a path is first given is
\* immaterial: a new file is written "hello", an existing one is changed.
WriteFile ==
    \E path \in FilePaths, content \in Contents :
        /\ edits < MaxEdits
        /\ IF Present(work, path) THEN content # work[path] ELSE content = "hello"
        /\ Apply(Res(write_file(State, path, content), "ok"), "write", "")
        /\ edits' = edits + 1

Next == init \/ add \/ commit \/ checkout \/ branch \/ merge \/ WriteFile

Spec == Init /\ [][Next]_vars

---------------------------------------------------------------------------
(* Longer histories: the same commands on branches (init once, checkouts   *)
(* by branch name), with room for one commit more.                         *)

commit_on_branch ==
    /\ Cardinality(DOMAIN images) < HistoryCommits
    /\ Apply(commit_cmd(State, <<>>), "commit", "")
    /\ UNCHANGED edits

checkout_branch ==
    \E target \in BranchNames :
        /\ Apply(checkout_cmd(State, target), "checkout", target)
        /\ UNCHANGED edits

merge_branch ==
    \E branch_to_merge \in BranchNames :
        /\ Cardinality(DOMAIN images) < HistoryCommits
        /\ Apply(merge_cmd(State, branch_to_merge), "merge", branch_to_merge)
        /\ UNCHANGED edits

HistoryNext ==
    add \/ commit_on_branch \/ checkout_branch \/ branch \/ merge_branch
        \/ WriteFile

HistorySpec == Init /\ [][HistoryNext]_vars

---------------------------------------------------------------------------
(* What the claims speak of.                                               *)

\* The Reference Store as read back, and its entries.
HasRef(st, name) ==
    read_references(st).ok /\ dict_has(read_references(st).d, Str(name))
RefOf(st, name) == dict_get(read_references(st).d, Str(name))
HasHead(st) == HasRef(st, "HEAD")
RefNames(st) == {read_references(st).d[i][1] : i \in DOMAIN read_references(st).d}

\* The commits a command created.
NewCommits(st, after) == DOMAIN after.images \ DOMAIN st.images

\* Nothing that existed in the images folder was touched.
OldCommitsKept(st, after) ==
    \A c \in DOMAIN st.images :
        /\ c \in DOMAIN after.images
        /\ after.images[c] = st.images[c]
        /\ after.meta[c] = st.meta[c]

\* status: the to-be-committed and the not-staged sets.
ToBeCommitted(st) ==
    get_changes_to_be_committed(st, get_head_commit(read_references(st).d))
NotStaged(st) == get_changes_not_staged(st)

Sane ==
    /\ WellFormedTree(work)
    /\ WellFormedTree(staging)
    /\ \A c \in DOMAIN images : WellFormedTree(images[c])
    /\ DOMAIN meta = DOMAIN images
    /\ read_references(State).ok =>
          \A i \in DOMAIN read_references(State).d :
              /\ Len(read_references(State).d[i][1]) = 1
              /\ Len(read_references(State).d[i][2]) = 1

---------------------------------------------------------------------------
(* C1 - C4: commit                                                         *)

\* What C1 and C2 ask of a commit that starts in st and ends in after:
\* one new commit, child of the old HEAD, which HEAD now names.
OneChildOfHead(st, after) ==
    /\ Cardinality(NewCommits(st, after)) = 1
    /\ OldCommitsKept(st, after)
    /\ \A c \in NewCommits(st, after) :
          /\ after.images[c] = st.staging
          /\ after.meta[c] = <<IdOf(RefOf(st, "HEAD"))>>
          /\ HasHead(after)
          /\ RefOf(after, "HEAD") = Str(c)

\* C1: in every reachable state where HEAD exists and activated.txt names
\* a branch of the Reference Store, a commit that succeeds creates exactly
\* one commit whose parent list is [old HEAD], sets HEAD to it, sets the
\* active branch to it if and only if that branch equalled HEAD before,
\* and leaves every other reference as it was.
C1_CommitAdvancesHeadAndActive ==
    LET after == commit_cmd(State, <<>>)
    IN (/\ HasHead(State)
        /\ activated # ""
        /\ HasRef(State, activated)
        /\ after.result = "ok")
       => /\ OneChildOfHead(State, after.st)
          /\ RefNames(after.st) = RefNames(State)
          /\ RefOf(after.st, activated) =
                 IF RefOf(State, activated) = RefOf(State, "HEAD")
                 THEN RefOf(after.st, "HEAD")
                 ELSE RefOf(State, activated)
          /\ RefOf(after.st, "HEAD") # RefOf(State, activated)
          /\ \A n \in BranchNames \ {activated} :
                HasRef(State, n) => RefOf(after.st, n) = RefOf(State, n)

\* C1, reached: a commit with a parent was just made on a branch.
C1_Witness ==
    /\ op.name = "commit" /\ op.result = "ok"
    /\ activated # "" /\ HasRef(State, activated)
    /\ Len(meta[IdOf(RefOf(State, "HEAD"))]) = 1
    /\ RefOf(State, activated) = RefOf(State, "HEAD")

\* C2: with HEAD detached (activated.txt empty after a checkout by commit
\* id) and staged changes, commit succeeds: one new commit whose parent is
\* the old HEAD, HEAD moved to it, no branch reference moved.
C2_DetachedCommitSucceeds ==
    LET after == commit_cmd(State, <<>>)
    IN (/\ HasHead(State)
        /\ activated = ""
        /\ ToBeCommitted(State) # {})
       => /\ after.result = "ok"
          /\ OneChildOfHead(State, after.st)
          /\ \A n \in BranchNames :
                HasRef(State, n) => RefOf(after.st, n) = RefOf(State, n)

\* C3 as stated: commit fails with the no-changes error only when HEAD
\* exists and the staging area has no structural difference from HEAD's
\* snapshot; the first commit is never refused for lack of changes.
C3_FirstCommitNeverRefused ==
    LET after == commit_cmd(State, <<>>)
    IN after.result = "NoChangesSinceLastCommitError"
       => /\ HasHead(State)
          /\ get_changes(staging, image_dir(State, RefOf(State, "HEAD")),
                         TRUE, TRUE, TRUE) = {}

\* C3, amended: commit fails with the no-changes error only when the
\* staging area has no structural difference from HEAD's snapshot or, with
\* no HEAD yet, is empty; the first commit is refused for lack of changes
\* exactly when the staging area is empty.
C3_NoChangesOnlyWithoutDifference ==
    LET after == commit_cmd(State, <<>>)
    IN /\ (after.result = "NoChangesSinceLastCommitError" /\ HasHead(State))
          => get_changes(staging, image_dir(State, RefOf(State, "HEAD")),
                         TRUE, TRUE, TRUE) = {}
       /\ references = <<>>
          => /\ after.result = "NoChangesSinceLastCommitError" <=> staging = EmptyTree
             /\ after.result \in {"NoChangesSinceLastCommitError", "ok"}

\* C3, reached: the first commit was made from a staging area that is not
\* empty, and nothing is left to commit.
C3_Witness ==
    /\ op.name = "commit" /\ op.result = "ok"
    /\ meta[IdOf(RefOf(State, "HEAD"))] = <<>>
    /\ staging # EmptyTree
    /\ commit_cmd(State, <<>>).result = "NoChangesSinceLastCommitError"

\* C4: a commit right after a commit that succeeded fails with the
\* no-changes error and creates no snapshot and changes no reference, nor
\* activated.txt, nor the staging area.
C4_SecondCommitRefused ==
    LET first == commit_cmd(State, <<>>)
        second == commit_cmd(first.st, <<>>)
    IN first.result = "ok"
       => /\ second.result = "NoChangesSinceLastCommitError"
          /\ second.st = first.st

\* C4, reached: a commit has just succeeded and the next one is refused.
C4_Witness ==
    /\ op.name = "commit" /\ op.result = "ok"
    /\ Len(meta[IdOf(RefOf(State, "HEAD"))]) = 1
    /\ commit_cmd(State, <<>>) = Res(State, "NoChangesSinceLastCommitError")

---------------------------------------------------------------------------
(* C5 - C7: checkout                                                       *)

CheckoutTargets == BranchNames \cup CommitTargets

\* The commit a checkout argument names.
TargetCommit(st, target) ==
    IF HasCommitIdShape(target) THEN Str(target) ELSE RefOf(st, target)

\* target is a commit of the images folder or a branch of the store.
ExistingRef(st, target) ==
    IF HasCommitIdShape(target) THEN target \in DOMAIN st.images
    ELSE HasRef(st, target) /\ find_commit_by_id(st, RefOf(st, target))

\* C5: after a checkout of X that succeeds, from any reachable state,
\* status has nothing to be committed and nothing not staged, HEAD names
\* X's commit, and activated.txt holds X if X is a branch name and is
\* empty otherwise.
C5_CheckoutLeavesCleanStatus ==
    \A target \in CheckoutTargets :
        LET after == checkout_cmd(State, target)
        IN after.result = "ok"
           => /\ ToBeCommitted(after.st) = {}
              /\ NotStaged(after.st) = {}
              /\ RefOf(after.st, "HEAD") = TargetCommit(State, target)
              /\ after.st.activated =
                     IF HasCommitIdShape(target) THEN "" ELSE target

\* C6: a checkout of an existing ref while something is to be committed or
\* not staged fails with the dirty-tree error and changes nothing.
C6_DirtyCheckoutRefused ==
    \A target \in CheckoutTargets :
        (/\ ExistingRef(State, target)
         /\ \/ NotStaged(State) # {}
            \/ HasHead(State) /\ ToBeCommitted(State) # {})
        => checkout_cmd(State, target) = Res(State, "UnableToCheckoutError")

\* C7: a checkout that succeeds leaves every path that was in the working
\* directory and not in the staging area as it was, also when the target
\* snapshot holds a path of that name.
C7_UntrackedPreserved ==
    \A target \in CheckoutTargets :
        LET after == checkout_cmd(State, target)
        IN after.result = "ok"
           => \A p \in AllPaths :
                 (Present(work, p) /\ ~Present(staging, p))
                 => after.st.work[p] = work[p]

\* C7, reached: a checkout has succeeded and kept a file of the working
\* directory whose content is not that of the snapshot it restored.
C7_Witness ==
    /\ op.name = "checkout" /\ op.result = "ok"
    /\ \E p \in FilePaths :
          /\ staging[p] \in Contents
          /\ work[p] \in Contents
          /\ work[p] # staging[p]

---------------------------------------------------------------------------
(* C8, C9: branch                                                          *)

\* C8: after branch(name) succeeds for a name not in the store, the store
\* read back maps name to HEAD's commit and every older reference to the
\* commit it had, and nothing else has changed.
C8_BranchAddsOneReference ==
    \A name \in BranchNames :
        LET after == branch_cmd(State, name)
        IN (/\ read_references(State).ok
            /\ ~HasRef(State, name)
            /\ after.result = "ok")
           => /\ read_references(after.st).ok
              /\ HasRef(after.st, name)
              /\ RefOf(after.st, name) = RefOf(State, "HEAD")
              /\ \A k \in RefNames(State) :
                    /\ dict_has(read_references(after.st).d, k)
                    /\ dict_get(read_references(after.st).d, k)
                           = dict_get(read_references(State).d, k)
              /\ after.st = [State EXCEPT !.references = after.st.references]

\* C9: branch(name) for a name the store holds fails with the
\* branch-exists error and leaves the store as it was.
C9_ExistingBranchRefused ==
    \A name \in BranchNames :
        HasRef(State, name)
        => branch_cmd(State, name) = Res(State, "BranchExistsError")

\* C9, reached: a branch was just created, so that its name is taken.
C9_Witness ==
    /\ op.name = "branch" /\ op.result = "ok"
    /\ HasRef(State, op.ref)
    /\ branch_cmd(State, op.ref).result = "BranchExistsError"

---------------------------------------------------------------------------
(* C10: merge                                                              *)

\* C10: a merge of other that succeeds, with a the active branch's commit
\* and b other's, creates exactly one commit whose parents are [a, b],
\* moves HEAD and the active branch to it and leaves other at b.
C10_MergeCommitHasParentsAB ==
    \A other \in BranchNames :
        LET after == merge_cmd(State, other)
            a == RefOf(State, activated)
            b == RefOf(State, other)
        IN after.result = "ok"
           => /\ Cardinality(NewCommits(State, after.st)) = 1
              /\ OldCommitsKept(State, after.st)
              /\ \A c \in NewCommits(State, after.st) :
                    /\ after.st.meta[c] = <<IdOf(a), IdOf(b)>>
                    /\ RefOf(after.st, "HEAD") = Str(c)
                    /\ RefOf(after.st, activated) = Str(c)
                    /\ RefOf(after.st, other) = b

---------------------------------------------------------------------------
(* C11 - C14: what merge copies                                            *)

\* a and b of merge(other), and the snapshot of the merge base.
MergeA(st) == RefOf(st, st.activated)
MergeB(st, other) == RefOf(st, other)
MergeBase(st, other) ==
    image_dir(st, Str(get_common_parent(st, IdOf(MergeA(st)),
                                        IdOf(MergeB(st, other)))))

\* The files added or modified in snapshot b relative to snapshot base.
ChangedFrom(base, b) == {p \in FilePaths : b[p] \in Contents /\ b[p] # base[p]}

\* C11: after a merge of other that succeeds, every file that b's snapshot
\* adds to or modifies in the merge base's snapshot, at any depth and also
\* inside a directory only b holds, has b's content in the staging area
\* and in the merge commit's snapshot.
C11_MergeTakesChangesOfB ==
    \A other \in BranchNames :
        LET after == merge_cmd(State, other)
            b == image_dir(State, MergeB(State, other))
        IN after.result = "ok"
           => \A p \in ChangedFrom(MergeBase(State, other), b) :
                 /\ after.st.staging[p] = b[p]
                 /\ \A c \in NewCommits(State, after.st) :
                       after.st.images[c][p] = b[p]

\* C12: after a merge of other that succeeds, every path the staging area
\* held that b's snapshot neither adds to nor modifies in the merge base's
\* snapshot has, in the merge commit's snapshot, the content it had in a's
\* snapshot.
C12_MergeKeepsOtherPaths ==
    \A other \in BranchNames :
        LET after == merge_cmd(State, other)
            a == image_dir(State, MergeA(State))
            b == image_dir(State, MergeB(State, other))
        IN after.result = "ok"
           => \A p \in AllPaths \ ChangedFrom(MergeBase(State, other), b) :
                 Present(staging, p)
                 => \A c \in NewCommits(State, after.st) :
                       after.st.images[c][p] = a[p]

\* C13: with a the active branch's commit and b other's, a # b, and a
\* staging area that differs from a's snapshot, merge(other) fails with
\* the merge error and changes neither the staging area, nor a reference,
\* nor activated.txt, nor the commits.
C13_DirtyMergeRefused ==
    \A other \in BranchNames :
        (/\ HasRef(State, activated)
         /\ HasRef(State, other)
         /\ MergeA(State) # MergeB(State, other)
         /\ staging # image_dir(State, MergeA(State)))
        => merge_cmd(State, other) = Res(State, "InvalidMergeError")

\* The files merge(other) copies from b's snapshot.
TakenFromB(st, other) ==
    LET b == image_dir(st, MergeB(st, other))
        changes == get_changes(MergeBase(st, other), b, FALSE, TRUE, TRUE)
    IN {p \in FilePaths : Copied("include_patterns", changes, b, p)}

\* C14: once a merge of other that succeeds returns, every file it took
\* from b has b's content in the working directory, and status has
\* nothing that is not staged (in the scenario of the specification, f
\* reads "world" after merge feature).
C14_MergeUpdatesWorkingDirectory ==
    \A other \in BranchNames :
        LET after == merge_cmd(State, other)
            b == image_dir(State, MergeB(State, other))
        IN after.result = "ok"
           => /\ \A p \in TakenFromB(State, other) : after.st.work[p] = b[p]
              /\ NotStaged(after.st) = {}

---------------------------------------------------------------------------
(* C15, C16: the common ancestor                                           *)

\* The commits reached from c by following parent links, c included.
RECURSIVE AncestorsOf(_, _)
AncestorsOf(st, c) ==
    {c} \cup UNION {AncestorsOf(st, get_parent_commit(st, c)[i]) :
                        i \in DOMAIN get_parent_commit(st, c)}

\* C15: for any two commits a and b of the history that share an
\* ancestor, merge commits included, get_common_parent(a, b) equals
\* get_common_parent(b, a).
C15_CommonParentSymmetric ==
    \A a, b \in DOMAIN images :
        AncestorsOf(State, a) \cap AncestorsOf(State, b) # {}
        => get_common_parent(State, a, b) = get_common_parent(State, b, a)

\* C16: for any two commits a and b of the history where b descends from
\* a (a is reached from b by parent links, possibly through merge
\* commits), get_common_parent(a, b) is a.
C16_CommonParentOfDescendant ==
    \A a, b \in DOMAIN images :
        a \in AncestorsOf(State, b) => get_common_parent(State, a, b) = a

---------------------------------------------------------------------------
(* C17: status                                                             *)

\* C17: in every reachable state where status answers (HEAD exists), no
\* name is in more than one of its three lists: to be committed, not
\* staged, untracked.
C17_StatusListsDisjoint ==
    HasHead(State)
    => /\ ToBeCommitted(State) \cap NotStaged(State) = {}
       /\ ToBeCommitted(State) \cap get_untracked(State) = {}
       /\ NotStaged(State) \cap get_untracked(State) = {}

---------------------------------------------------------------------------
(* C18: add                                                                *)

\* C18: after add(path) for a path the working directory holds, a file or
\* a directory, staged before or not, the staging area holds under path
\* what the working directory holds under path.
C18_AddCopiesPath ==
    \A path \in AllPaths :
        LET after == add_cmd(State, path)
        IN Present(work, path)
           => /\ after.result = "ok"
              /\ \A p \in AllPaths :
                    path \in Prefixes(p) => after.st.staging[p] = work[p]

---------------------------------------------------------------------------
(* C19, C20: the Reference Store and the commits                           *)

\* C19: in every reachable state the Reference Store reads back as a
\* mapping whose every value, HEAD's and every branch's, is a commit of
\* the images folder, and it holds HEAD once a commit exists.
C19_ReferencesNameCommits ==
    /\ read_references(State).ok
    /\ \A i \in DOMAIN read_references(State).d :
          find_commit_by_id(State, read_references(State).d[i][2])
    /\ DOMAIN images # {} => HasHead(State)

\* C20: a commit that exists keeps its snapshot and its parent list in
\* every step of init, add, commit, branch, checkout and merge, and so in
\* every later state.
C20_CommitsImmutable ==
    [][\A c \in DOMAIN images :
          /\ c \in DOMAIN images'
          /\ images'[c] = images[c]
          /\ meta'[c] = meta[c]]_vars

\* C20, reached: a merge has just made the third commit of a history
\* whose first two snapshots differ and are still in the images folder.
C20_Witness ==
    /\ op.name = "merge" /\ op.result = "ok"
    /\ DOMAIN images = {IdSeq[1], IdSeq[2], IdSeq[3]}
    /\ images[IdSeq[1]] # images[IdSeq[2]]
    /\ Len(meta[IdSeq[3]]) = 2

---------------------------------------------------------------------------
(* C21: the flattened walk                                                 *)

\* The commits on the first-parent chain from c down to the root.
RECURSIVE FirstParentChain(_, _)
FirstParentChain(st, c) ==
    {c} \cup (IF get_parent_commit(st, c) = <<>> THEN {}
              ELSE FirstParentChain(st, get_parent_commit(st, c)[1]))

\* Both parents of every merge commit of a set of commits.
MergeParents(st, chain) ==
    UNION {{get_parent_commit(st, m)[i] : i \in DOMAIN get_parent_commit(st, m)} :
              m \in {x \in chain : Len(get_parent_commit(st, x)) = 2}}

\* C21: started at any commit c, get_all_parent_commits with flat=True
\* yields c, every commit on the first-parent chain from c down to the
\* root, and both parents of every merge commit on that chain: the walk
\* goes on along first parents past a merge commit.
C21_FlatWalkReachesRoot ==
    \A c \in DOMAIN images :
        LET walk == get_all_parent_commits(State, c, TRUE)
            chain == FirstParentChain(State, c)
        IN chain \cup MergeParents(State, chain)
               \subseteq {walk[i] : i \in DOMAIN walk}

---------------------------------------------------------------------------
(* C22: activated.txt                                                      *)

\* C22: in every reachable state with a commit, after any sequence of
\* init (repeated too), add, commit, branch, checkout and merge, a branch
\* named by activated.txt is an entry of the Reference Store and that
\* entry equals HEAD (stated for the states whose references.txt reads
\* back as a mapping).
C22_ActiveBranchIsHead ==
    (DOMAIN images # {} /\ activated # "" /\ read_references(State).ok)
    => /\ HasRef(State, activated)
       /\ HasHead(State)
       /\ RefOf(State, activated) = RefOf(State, "HEAD")

=============================================================================
